---- MODULE Spec2Model ----
(***************************************************************************)
(* avalanche/training/strategies.py: the constructors of Naive, MTNaive    *)
(* and CWRStar.  A construction is a frame that runs the statements of one *)
(* __init__ over a heap of list objects; the base constructor and the      *)
(* plugin constructors are external and are seen through what they are     *)
(* called with (a recording stub) and through whether they return or raise.*)
(***************************************************************************)
EXTENDS Integers, Sequences, FiniteSets, TLC

\* ------------------------------------------------------------------ bounds
\* constructions performed in one run
MaxConstructions == 2
\* list objects the caller owns; list k holds k-1 plugins before any construction
NumCallerLists == 3

\* ------------------------------------------------------------------ values
\* Python's None as the value of a scalar parameter
None == "None"
\* Python's None as the value of `plugins` (the null reference; lists are 1, 2, ...)
NoneRef == 0
\* a parameter the class's signature does not have
NoParam == "<no parameter>"
\* a local that is not bound yet
Unbound == [type |-> "<unbound>", id |-> 0]

Classes == {"Naive", "MTNaive", "CWRStar"}
Models == {"net1", "net2"}
Errors == {"RuntimeError", "ValueError"}

CallerLists == 1..NumCallerLists
Constructions == 1..MaxConstructions

\* the k-th plugin object the caller made
CallerPlugin(k) == [type |-> "StrategyPlugin", id |-> k]
\* the caller's list k as the caller built it: p1 .. p(k-1)
CallerList(k) == [i \in 1..(k - 1) |-> CallerPlugin(i)]

\* keyword names a caller may give, besides plugins
ConfigNames == {"evaluation_protocol", "train_mb_size", "train_epochs",
                "test_mb_size", "device"}
KeywordNames(cls) ==
    CASE cls = "Naive" -> ConfigNames
      [] cls = "MTNaive" -> ConfigNames \cup {"classifier_field", "keep_initial_layer"}
      [] cls = "CWRStar" -> ConfigNames \cup {"second_last_layer_name", "num_classes"}
RequiredNames(cls) == IF cls = "CWRStar" THEN {"second_last_layer_name"} ELSE {}

\* the value a caller gives for a keyword (one value per name, never the default)
Supplied(name) ==
    CASE name = "evaluation_protocol" -> "eval_protocol"
      [] name = "train_mb_size" -> "32"
      [] name = "train_epochs" -> "4"
      [] name = "test_mb_size" -> "64"
      [] name = "device" -> "cuda"
      [] name = "classifier_field" -> "fc"
      [] name = "keep_initial_layer" -> "True"
      [] name = "second_last_layer_name" -> "features"
      [] name = "num_classes" -> "10"

\* a call: the class, the three required handles, the keywords given (a function
\* on the names given), and plugins (has_plugins false: the argument is omitted)
CallsWith(classes, models, keywordSets, pluginArgs) ==
    { [cls |-> cls, model |-> m, optimizer |-> "sgd", criterion |-> "cross_entropy",
       kw |-> [n \in S |-> Supplied(n)],
       has_plugins |-> p[1], plugins |-> p[2]] :
         cls \in classes, m \in models, S \in keywordSets, p \in pluginArgs }

PluginArgs == {<<FALSE, NoneRef>>, <<TRUE, NoneRef>>} \cup {<<TRUE, l>> : l \in CallerLists}

\* every well-formed call of one class
CallsOf(cls) ==
    CallsWith({cls}, Models,
              {S \in SUBSET KeywordNames(cls) : RequiredNames(cls) \subseteq S},
              PluginArgs)
AllCalls == UNION {CallsOf(cls) : cls \in Classes}

\* calls that leave the configuration at its defaults
PlainCallsOf(cls) ==
    CallsWith({cls}, {"net1"}, {RequiredNames(cls)},
              {<<FALSE, NoneRef>>} \cup {<<TRUE, l>> : l \in CallerLists})
PlainCalls == UNION {PlainCallsOf(cls) : cls \in Classes}

VARIABLES
    heap,       \* list objects: heap[r] is the content of list r
    started,    \* constructions called so far
    calls,      \* calls[c]: the call the caller made
    before,     \* before[c]: content of the caller's list when the call was made
    frame,      \* frame[c]: position and locals of construction c
    pluginLog,  \* pluginLog[c]: calls of the internal plugin's constructor
    baseLog,    \* baseLog[c]: calls of the base constructor
    strategy,   \* strategy[c]: what the constructed strategy holds
    raised,     \* raised[c]: what a callee of construction c raised
    outcome     \* outcome[c]: how the constructor ended for its caller

vars == <<heap, started, calls, before, frame, pluginLog, baseLog, strategy,
          raised, outcome>>

\* ------------------------------------------------------ parameter binding
\* the value bound to a keyword parameter: the caller's, or the default
Param(a, name, default) == IF name \in DOMAIN a.kw THEN a.kw[name] ELSE default
PluginsParam(a, default) == IF a.has_plugins THEN a.plugins ELSE default

\* the frame of Naive.__init__ on entry
NaiveFrame(a) ==
    [pc |-> "super", cls |-> "Naive",
     model |-> a.model, optimizer |-> a.optimizer, criterion |-> a.criterion,
     evaluation_protocol |-> Param(a, "evaluation_protocol", None),
     train_mb_size |-> Param(a, "train_mb_size", "1"),
     train_epochs |-> Param(a, "train_epochs", "1"),
     test_mb_size |-> Param(a, "test_mb_size", None),
     device |-> Param(a, "device", None),
     plugins |-> PluginsParam(a, NoneRef),
     classifier_field |-> NoParam, keep_initial_layer |-> NoParam,
     second_last_layer_name |-> NoParam, num_classes |-> NoParam,
     plug |-> Unbound]

\* the frame of MTNaive.__init__ on entry
MTNaiveFrame(a) ==
    [pc |-> "mhp", cls |-> "MTNaive",
     model |-> a.model, optimizer |-> a.optimizer, criterion |-> a.criterion,
     evaluation_protocol |-> Param(a, "evaluation_protocol", None),
     train_mb_size |-> Param(a, "train_mb_size", "1"),
     train_epochs |-> Param(a, "train_epochs", "1"),
     test_mb_size |-> Param(a, "test_mb_size", None),
     device |-> Param(a, "device", None),
     plugins |-> PluginsParam(a, NoneRef),
     classifier_field |-> Param(a, "classifier_field", "classifier"),
     keep_initial_layer |-> Param(a, "keep_initial_layer", "False"),
     second_last_layer_name |-> NoParam, num_classes |-> NoParam,
     plug |-> Unbound]

\* the frame of CWRStar.__init__ on entry
CWRStarFrame(a) ==
    [pc |-> "cwsp", cls |-> "CWRStar",
     model |-> a.model, optimizer |-> a.optimizer, criterion |-> a.criterion,
     evaluation_protocol |-> Param(a, "evaluation_protocol", None),
     train_mb_size |-> Param(a, "train_mb_size", "1"),
     train_epochs |-> Param(a, "train_epochs", "1"),
     test_mb_size |-> Param(a, "test_mb_size", None),
     device |-> Param(a, "device", None),
     plugins |-> PluginsParam(a, NoneRef),
     classifier_field |-> NoParam, keep_initial_layer |-> NoParam,
     second_last_layer_name |-> a.kw["second_last_layer_name"],
     num_classes |-> Param(a, "num_classes", "50"),
     plug |-> Unbound]

IdleFrame == [NaiveFrame(CHOOSE a \in PlainCallsOf("Naive") : ~a.has_plugins)
                EXCEPT !.pc = "idle", !.cls = "<none>"]

EntryFrame(a) ==
    CASE a.cls = "Naive" -> NaiveFrame(a)
      [] a.cls = "MTNaive" -> MTNaiveFrame(a)
      [] a.cls = "CWRStar" -> CWRStarFrame(a)

\* ------------------------------------------------------------------- state
Init ==
    /\ heap = [r \in CallerLists |-> CallerList(r)]
    /\ started = 0
    /\ calls = [c \in Constructions |-> CHOOSE a \in PlainCallsOf("Naive") : ~a.has_plugins]
    /\ before = [c \in Constructions |-> <<>>]
    /\ frame = [c \in Constructions |-> IdleFrame]
    /\ pluginLog = [c \in Constructions |-> <<>>]
    /\ baseLog = [c \in Constructions |-> <<>>]
    /\ strategy = [c \in Constructions |-> [built |-> FALSE, plugins |-> NoneRef]]
    /\ raised = [c \in Constructions |-> [by |-> "nobody", error |-> "none"]]
    /\ outcome = [c \in Constructions |-> "not called"]

\* the content of the list a reference names (None names no list)
Deref(h, r) == IF r = NoneRef THEN <<>> ELSE h[r]

\* the caller calls a constructor: the parameters are bound
Enter(c, a) ==
    /\ c = started + 1
    /\ c <= MaxConstructions
    /\ started' = c
    /\ calls' = [calls EXCEPT ![c] = a]
    /\ before' = [before EXCEPT ![c] = Deref(heap, PluginsParam(a, NoneRef))]
    /\ frame' = [frame EXCEPT ![c] = EntryFrame(a)]
    /\ outcome' = [outcome EXCEPT ![c] = "running"]
    /\ UNCHANGED <<heap, pluginLog, baseLog, strategy, raised>>

\* ------------------------------------------------- the calls a frame makes
\* mutant: the handles are passed in the order of Naive's own signature
NaiveSuper_SignatureOrder(f) ==
    [args |-> <<f.model, f.optimizer, f.criterion, f.evaluation_protocol>>,
     kwargs |-> [train_mb_size |-> f.train_mb_size, train_epochs |-> f.train_epochs,
                 test_mb_size |-> f.test_mb_size, device |-> f.device,
                 plugins |-> f.plugins]]

\* Naive.__init__: the call of the base constructor
NaiveSuper(f) ==
    [args |-> <<f.model, f.criterion, f.optimizer, f.evaluation_protocol>>,
     kwargs |-> [train_mb_size |-> f.train_mb_size, train_epochs |-> f.train_epochs,
                 test_mb_size |-> f.test_mb_size, device |-> f.device,
                 plugins |-> f.plugins]]

\* mutant: keep_initial_layer is not passed on, the plugin keeps its default
MultiHeadPluginCall_DropsFlag(f) ==
    [type |-> "MultiHeadPlugin", args |-> <<f.model>>,
     kwargs |-> [classifier_field |-> f.classifier_field,
                 keep_initial_layer |-> "False"]]

\* MTNaive.__init__: mhp = MultiHeadPlugin(...)
MultiHeadPluginCall(f) ==
    [type |-> "MultiHeadPlugin", args |-> <<f.model>>,
     kwargs |-> [classifier_field |-> f.classifier_field,
                 keep_initial_layer |-> f.keep_initial_layer]]

\* mutant: a non-empty list is extended, an empty one is replaced by a new list
MTNaivePlugins_Truthiness(h, plugins, mhp) ==
    IF plugins = NoneRef \/ h[plugins] = <<>>
    THEN [heap |-> Append(h, <<mhp>>), plugins |-> Len(h) + 1]
    ELSE [heap |-> [h EXCEPT ![plugins] = Append(@, mhp)], plugins |-> plugins]

\* mutant: the plugin is put in front of the caller's plugins
MTNaivePlugins_Prepend(h, plugins, mhp) ==
    IF plugins = NoneRef
    THEN [heap |-> Append(h, <<mhp>>), plugins |-> Len(h) + 1]
    ELSE [heap |-> [h EXCEPT ![plugins] = <<mhp>> \o @], plugins |-> plugins]

\* MTNaive.__init__: if plugins is None: plugins = [mhp] else: plugins.append(mhp)
\* (a new list object is allocated at the next free address)
MTNaivePlugins(h, plugins, mhp) ==
    IF plugins = NoneRef
    THEN [heap |-> Append(h, <<mhp>>), plugins |-> Len(h) + 1]
    ELSE [heap |-> [h EXCEPT ![plugins] = Append(@, mhp)], plugins |-> plugins]

\* MTNaive.__init__: the call of the base constructor
MTNaiveSuper(f) ==
    [args |-> <<f.model, f.criterion, f.optimizer, f.evaluation_protocol>>,
     kwargs |-> [train_mb_size |-> f.train_mb_size, train_epochs |-> f.train_epochs,
                 test_mb_size |-> f.test_mb_size, device |-> f.device,
                 plugins |-> f.plugins]]

\* mutant: the two plugin arguments are passed in the wrong order
CWRStarPluginCall_Swapped(f) ==
    [type |-> "CWRStarPlugin",
     args |-> <<f.model, f.num_classes, f.second_last_layer_name>>,
     kwargs |-> [n \in {} |-> None]]

\* CWRStar.__init__: cwsp = CWRStarPlugin(model, second_last_layer_name, num_classes)
CWRStarPluginCall(f) ==
    [type |-> "CWRStarPlugin",
     args |-> <<f.model, f.second_last_layer_name, f.num_classes>>,
     kwargs |-> [n \in {} |-> None]]

\* mutant: without a list, a list shared by all constructions is used (list 1)
CWRStarPlugins_SharedDefault(h, plugins, cwsp) ==
    IF plugins = NoneRef
    THEN [heap |-> [h EXCEPT ![1] = Append(@, cwsp)], plugins |-> 1]
    ELSE [heap |-> [h EXCEPT ![plugins] = Append(@, cwsp)], plugins |-> plugins]

\* mutant: the plugin is appended to a copy of the caller's list
CWRStarPlugins_Copy(h, plugins, cwsp) ==
    IF plugins = NoneRef
    THEN [heap |-> Append(h, <<cwsp>>), plugins |-> Len(h) + 1]
    ELSE [heap |-> Append(h, Append(h[plugins], cwsp)), plugins |-> Len(h) + 1]

\* CWRStar.__init__: if plugins is None: plugins = [cwsp] else: plugins.append(cwsp)
CWRStarPlugins(h, plugins, cwsp) ==
    IF plugins = NoneRef
    THEN [heap |-> Append(h, <<cwsp>>), plugins |-> Len(h) + 1]
    ELSE [heap |-> [h EXCEPT ![plugins] = Append(@, cwsp)], plugins |-> plugins]

\* mutant: test_mb_size is passed where train_mb_size is expected, and back
CWRStarSuper_SizesSwapped(f) ==
    [args |-> <<f.model, f.criterion, f.optimizer, f.evaluation_protocol>>,
     kwargs |-> [train_mb_size |-> f.test_mb_size, train_epochs |-> f.train_epochs,
                 test_mb_size |-> f.train_mb_size, device |-> f.device,
                 plugins |-> f.plugins]]

\* CWRStar.__init__: the call of the base constructor
CWRStarSuper(f) ==
    [args |-> <<f.model, f.criterion, f.optimizer, f.evaluation_protocol>>,
     kwargs |-> [train_mb_size |-> f.train_mb_size, train_epochs |-> f.train_epochs,
                 test_mb_size |-> f.test_mb_size, device |-> f.device,
                 plugins |-> f.plugins]]

\* mutant: an error of the base constructor is caught and another one raised
NaiveExit_Wrapped(result) == IF result = "returned" THEN result ELSE "StrategyError"

\* How __init__ ends when the call it is executing ends with `result` ("returned",
\* or the error raised): no statement of the three constructors catches anything,
\* and the base constructor's call is the last statement.
NaiveExit(result) == result
MTNaiveExit(result) == result
CWRStarExit(result) == result

\* --------------------------------------------------- external constructors
Results == {"returned"} \cup Errors

\* the object a plugin constructor returns to construction c
NewPlugin(c, call) == [type |-> call.type, id |-> c]

\* what a strategy holds once the base constructor has returned: the plugin
\* list it was handed, by reference
BaseStrategyHolds(call) == [built |-> TRUE, plugins |-> call.kwargs.plugins]

\* the base constructor is called with `call` and ends with `result`
BaseStrategyInit(c, call, result) ==
    /\ baseLog' = [baseLog EXCEPT ![c] =
                     Append(@, [args |-> call.args, kwargs |-> call.kwargs,
                                seen |-> Deref(heap, call.kwargs.plugins)])]
    /\ strategy' = [strategy EXCEPT ![c] =
                      IF result = "returned" THEN BaseStrategyHolds(call) ELSE @]
    /\ raised' = [raised EXCEPT ![c] =
                    IF result = "returned" THEN @
                    ELSE [by |-> "BaseStrategy", error |-> result]]

\* a plugin constructor is called with `call` and ends with `result`
PluginInit(c, call, result, next) ==
    /\ pluginLog' = [pluginLog EXCEPT ![c] = Append(@, call)]
    /\ raised' = [raised EXCEPT ![c] =
                    IF result = "returned" THEN @
                    ELSE [by |-> call.type, error |-> result]]
    /\ frame' = [frame EXCEPT ![c] =
                   IF result = "returned"
                   THEN [@ EXCEPT !.plug = NewPlugin(c, call), !.pc = next]
                   ELSE [@ EXCEPT !.pc = "exit"]]

\* ----------------------------------------------------------------- actions
\* Naive.__init__, its only statement: super().__init__(...)
NaiveInit(c) ==
    /\ frame[c].cls = "Naive" /\ frame[c].pc = "super"
    /\ \E result \in Results :
         /\ BaseStrategyInit(c, NaiveSuper(frame[c]), result)
         /\ outcome' = [outcome EXCEPT ![c] = NaiveExit(result)]
    /\ frame' = [frame EXCEPT ![c].pc = "exit"]
    /\ UNCHANGED <<heap, started, calls, before, pluginLog>>

\* MTNaive.__init__, first statement: the head-expansion plugin is constructed
MTNaiveBuild(c) ==
    /\ frame[c].cls = "MTNaive" /\ frame[c].pc = "mhp"
    /\ \E result \in Results :
         /\ PluginInit(c, MultiHeadPluginCall(frame[c]), result, "plugins")
         /\ outcome' = [outcome EXCEPT ![c] =
                          IF result = "returned" THEN @ ELSE MTNaiveExit(result)]
    /\ UNCHANGED <<heap, started, calls, before, baseLog, strategy>>

\* MTNaive.__init__, second statement: the plugin joins the plugin list
MTNaiveAttach(c) ==
    /\ frame[c].cls = "MTNaive" /\ frame[c].pc = "plugins"
    /\ LET r == MTNaivePlugins(heap, frame[c].plugins, frame[c].plug)
       IN /\ heap' = r.heap
          /\ frame' = [frame EXCEPT ![c].plugins = r.plugins, ![c].pc = "super"]
    /\ UNCHANGED <<started, calls, before, pluginLog, baseLog, strategy, raised, outcome>>

\* mutant: the plugin is taken off the list again when the base constructor raises
MTNaiveInit_RollsBack(c) ==
    /\ frame[c].cls = "MTNaive" /\ frame[c].pc = "super"
    /\ \E result \in Results :
         /\ BaseStrategyInit(c, MTNaiveSuper(frame[c]), result)
         /\ outcome' = [outcome EXCEPT ![c] = MTNaiveExit(result)]
         /\ heap' = IF result = "returned" THEN heap
                    ELSE [heap EXCEPT ![frame[c].plugins] = SubSeq(@, 1, Len(@) - 1)]
    /\ frame' = [frame EXCEPT ![c].pc = "exit"]
    /\ UNCHANGED <<started, calls, before, pluginLog>>

\* MTNaive.__init__, last statement: super().__init__(...)
MTNaiveInit(c) ==
    /\ frame[c].cls = "MTNaive" /\ frame[c].pc = "super"
    /\ \E result \in Results :
         /\ BaseStrategyInit(c, MTNaiveSuper(frame[c]), result)
         /\ outcome' = [outcome EXCEPT ![c] = MTNaiveExit(result)]
    /\ frame' = [frame EXCEPT ![c].pc = "exit"]
    /\ UNCHANGED <<heap, started, calls, before, pluginLog>>

\* CWRStar.__init__, first statement: the weight-consolidation plugin is constructed
CWRStarBuild(c) ==
    /\ frame[c].cls = "CWRStar" /\ frame[c].pc = "cwsp"
    /\ \E result \in Results :
         /\ PluginInit(c, CWRStarPluginCall(frame[c]), result, "plugins")
         /\ outcome' = [outcome EXCEPT ![c] =
                          IF result = "returned" THEN @ ELSE CWRStarExit(result)]
    /\ UNCHANGED <<heap, started, calls, before, baseLog, strategy>>

\* CWRStar.__init__, second statement: the plugin joins the plugin list
CWRStarAttach(c) ==
    /\ frame[c].cls = "CWRStar" /\ frame[c].pc = "plugins"
    /\ LET r == CWRStarPlugins(heap, frame[c].plugins, frame[c].plug)
       IN /\ heap' = r.heap
          /\ frame' = [frame EXCEPT ![c].plugins = r.plugins, ![c].pc = "super"]
    /\ UNCHANGED <<started, calls, before, pluginLog, baseLog, strategy, raised, outcome>>

\* CWRStar.__init__, last statement: super().__init__(...)
CWRStarInit(c) ==
    /\ frame[c].cls = "CWRStar" /\ frame[c].pc = "super"
    /\ \E result \in Results :
         /\ BaseStrategyInit(c, CWRStarSuper(frame[c]), result)
         /\ outcome' = [outcome EXCEPT ![c] = CWRStarExit(result)]
    /\ frame' = [frame EXCEPT ![c].pc = "exit"]
    /\ UNCHANGED <<heap, started, calls, before, pluginLog>>

\* every construction called so far has ended
Quiescent == \A d \in 1..started : frame[d].pc = "exit"

\* the program as written: one construction at a time, run to its end
Call(c) == Quiescent /\ \E a \in PlainCalls : Enter(c, a)

\* constructions called from several threads: a call may begin while others run
CallConcurrently(c) == \E a \in PlainCalls : Enter(c, a)

\* a single construction, with every combination of arguments
CallConfigured(c) == c = 1 /\ \E a \in AllCalls : Enter(c, a)

Next ==
    \E c \in Constructions :
        \/ Call(c)
        \/ NaiveInit(c)
        \/ MTNaiveBuild(c)
        \/ MTNaiveAttach(c)
        \/ MTNaiveInit(c)
        \/ CWRStarBuild(c)
        \/ CWRStarAttach(c)
        \/ CWRStarInit(c)

NextThreads ==
    \E c \in Constructions :
        \/ CallConcurrently(c)
        \/ NaiveInit(c)
        \/ MTNaiveBuild(c)
        \/ MTNaiveAttach(c)
        \/ MTNaiveInit(c)
        \/ CWRStarBuild(c)
        \/ CWRStarAttach(c)
        \/ CWRStarInit(c)

NextArgs ==
    \E c \in Constructions :
        \/ CallConfigured(c)
        \/ NaiveInit(c)
        \/ MTNaiveBuild(c)
        \/ MTNaiveAttach(c)
        \/ MTNaiveInit(c)
        \/ CWRStarBuild(c)
        \/ CWRStarAttach(c)
        \/ CWRStarInit(c)

Spec == Init /\ [][Next]_vars
SpecThreads == Init /\ [][NextThreads]_vars
SpecArgs == Init /\ [][NextArgs]_vars

\* ------------------------------------------------------- reading the state
Called(c) == c <= started
Exited(c) == Called(c) /\ frame[c].pc = "exit"
Appending(c) == Called(c) /\ frame[c].cls \in {"MTNaive", "CWRStar"}
BaseCalled(c) == Called(c) /\ Len(baseLog[c]) > 0
\* the list the caller passed (NoneRef: none)
Passed(c) == IF calls[c].has_plugins THEN calls[c].plugins ELSE NoneRef
\* the names the base constructor takes by keyword
BaseKeywords == {"train_mb_size", "train_epochs", "test_mb_size", "device", "plugins"}
\* the internal plugin's type, per class
InternalType(cls) == IF cls = "MTNaive" THEN "MultiHeadPlugin" ELSE "CWRStarPlugin"
\* how often x occurs in s
Count(s, x) == Cardinality({i \in 1..Len(s) : s[i] = x})
\* construction c has just ended and no later one has begun
Latest(c) == Exited(c) /\ c = started

\* C1: in every construction of MTNaive or CWRStar, whatever plugins was (omitted,
\* an empty list, a list p1..pn), the sequence the base constructor is handed is
\* the caller's elements in their order followed by the internal plugin, which is
\* the object the plugin constructor (called once) returned and occurs once.
C1_PluginsHandedToBase ==
    \A c \in Constructions :
        (Appending(c) /\ BaseCalled(c)) =>
            /\ Len(pluginLog[c]) = 1
            /\ frame[c].plug = [type |-> InternalType(frame[c].cls), id |-> c]
            /\ baseLog[c][1].seen = before[c] \o <<frame[c].plug>>
            /\ Count(baseLog[c][1].seen, frame[c].plug) = 1

\* C1 witness: a construction given the caller's two-element list has called the
\* base constructor, and one given no list has too
C1_Witness ==
    \E c, d \in Constructions :
        /\ Appending(c) /\ BaseCalled(c) /\ Len(before[c]) >= 2
        /\ Len(baseLog[c][1].seen) = Len(before[c]) + 1
        /\ Appending(d) /\ BaseCalled(d) /\ Passed(d) = NoneRef

\* C2: Naive calls the base constructor exactly once, with the caller's model,
\* criterion, optimizer and evaluation_protocol by position in that order and the
\* caller's train_mb_size, train_epochs, test_mb_size, device and plugins by keyword
\* under the same names; plugins is the caller's own list object (or None), whose
\* content is untouched.
C2_NaiveForwards ==
    \A c \in Constructions :
        (Called(c) /\ frame[c].cls = "Naive") =>
            /\ Len(baseLog[c]) = (IF Exited(c) THEN 1 ELSE 0)
            /\ Exited(c) =>
                 LET b == baseLog[c][1]
                     a == calls[c]
                 IN /\ Len(b.args) = 4
                    /\ b.args[1] = a.model
                    /\ b.args[2] = a.criterion
                    /\ b.args[3] = a.optimizer
                    /\ "evaluation_protocol" \in DOMAIN a.kw =>
                           b.args[4] = a.kw["evaluation_protocol"]
                    /\ DOMAIN b.kwargs = BaseKeywords
                    /\ \A n \in DOMAIN a.kw \cap BaseKeywords : b.kwargs[n] = a.kw[n]
                    /\ b.kwargs.plugins = Passed(c)
                    /\ b.seen = before[c]
                    /\ heap = [r \in CallerLists |-> CallerList(r)]

\* C2 witness: Naive was given every optional argument and the two-element list,
\* and has ended
C2_Witness ==
    \E c \in Constructions :
        /\ Exited(c) /\ frame[c].cls = "Naive"
        /\ DOMAIN calls[c].kw = ConfigNames
        /\ Passed(c) # NoneRef /\ Len(before[c]) >= 2
        /\ outcome[c] = "returned"

\* C3: when MTNaive or CWRStar is given a list, the base constructor is handed that
\* same list object, and when the construction has returned the caller's list is
\* what it was with the internal plugin appended: one element longer, plugin last.
C3_CallerListMutated ==
    \A c \in Constructions :
        (Appending(c) /\ Passed(c) # NoneRef) =>
            /\ BaseCalled(c) => baseLog[c][1].kwargs.plugins = Passed(c)
            /\ (Latest(c) /\ outcome[c] = "returned") =>
                 /\ Len(heap[Passed(c)]) = Len(before[c]) + 1
                 /\ heap[Passed(c)] = Append(before[c], frame[c].plug)
                 /\ frame[c].plug.type = InternalType(frame[c].cls)

\* C3 witness: a CWRStar construction given a non-empty list has returned
C3_Witness ==
    \E c \in Constructions :
        /\ Latest(c) /\ frame[c].cls = "CWRStar" /\ outcome[c] = "returned"
        /\ Passed(c) # NoneRef /\ Len(before[c]) >= 1
        /\ Len(heap[Passed(c)]) = Len(before[c]) + 1

\* C4: MTNaive without a plugin list hands the base constructor a one-element
\* sequence holding the head-expansion plugin, which was built from the model
\* handle the base constructor receives and from the caller's classifier_field and
\* keep_initial_layer ("classifier" and False when omitted); the base constructor
\* receives neither of the two.
C4_MTNaiveNoPlugins ==
    \A c \in Constructions :
        (BaseCalled(c) /\ frame[c].cls = "MTNaive" /\ Passed(c) = NoneRef) =>
            LET b == baseLog[c][1]
                a == calls[c]
            IN /\ Len(b.seen) = 1
               /\ b.seen[1] = frame[c].plug
               /\ b.seen[1].type = "MultiHeadPlugin"
               /\ Len(pluginLog[c]) = 1
               /\ pluginLog[c][1].type = "MultiHeadPlugin"
               /\ pluginLog[c][1].args = <<b.args[1]>>
               /\ b.args[1] = a.model
               /\ pluginLog[c][1].kwargs =
                    [classifier_field |->
                        IF "classifier_field" \in DOMAIN a.kw
                        THEN a.kw["classifier_field"] ELSE "classifier",
                     keep_initial_layer |->
                        IF "keep_initial_layer" \in DOMAIN a.kw
                        THEN a.kw["keep_initial_layer"] ELSE "False"]
               /\ Len(b.args) = 4
               /\ DOMAIN b.kwargs = BaseKeywords

\* C4 witness: MTNaive, no plugin list, both plugin arguments given, base called
C4_Witness ==
    \E c \in Constructions :
        /\ BaseCalled(c) /\ frame[c].cls = "MTNaive" /\ Passed(c) = NoneRef
        /\ {"classifier_field", "keep_initial_layer"} \subseteq DOMAIN calls[c].kw
        /\ Len(baseLog[c][1].seen) = 1

\* C5: CWRStar without a plugin list hands the base constructor exactly the
\* weight-consolidation plugin, built from the model handle the base constructor
\* receives, the caller's second_last_layer_name and the caller's num_classes (50
\* when omitted); the base constructor receives neither of the two.
C5_CWRStarNoPlugins ==
    \A c \in Constructions :
        (BaseCalled(c) /\ frame[c].cls = "CWRStar" /\ Passed(c) = NoneRef) =>
            LET b == baseLog[c][1]
                a == calls[c]
            IN /\ b.seen = <<frame[c].plug>>
               /\ b.seen[1].type = "CWRStarPlugin"
               /\ Len(pluginLog[c]) = 1
               /\ pluginLog[c][1].type = "CWRStarPlugin"
               /\ pluginLog[c][1].args =
                    <<b.args[1], a.kw["second_last_layer_name"],
                      IF "num_classes" \in DOMAIN a.kw THEN a.kw["num_classes"] ELSE "50">>
               /\ DOMAIN pluginLog[c][1].kwargs = {}
               /\ b.args[1] = a.model
               /\ Len(b.args) = 4
               /\ DOMAIN b.kwargs = BaseKeywords

\* C5 witness: CWRStar, no plugin list, num_classes omitted, base called
C5_Witness ==
    \E c \in Constructions :
        /\ BaseCalled(c) /\ frame[c].cls = "CWRStar" /\ Passed(c) = NoneRef
        /\ "num_classes" \notin DOMAIN calls[c].kw
        /\ pluginLog[c][1].args[3] = "50"

\* the default of a configuration argument, as documented for the interface
DocumentedDefault(n) ==
    CASE n \in {"train_mb_size", "train_epochs"} -> "1"
      [] n \in {"test_mb_size", "device", "evaluation_protocol"} -> None

\* the value of configuration argument n in a call of the base constructor
Received(b, n) == IF n = "evaluation_protocol" THEN b.args[4] ELSE b.kwargs[n]

C6_ErrorsPropagate ==
    \A c \in Constructions : Called(c) =>
        /\ outcome[c] \in {"running", "returned"} \cup Errors
        /\ raised[c].error # "none" =>
             /\ outcome[c] = raised[c].error
             /\ Exited(c)
        /\ outcome[c] \in Errors =>
             /\ raised[c].error = outcome[c]
             /\ raised[c].by \in {"BaseStrategy", "MultiHeadPlugin", "CWRStarPlugin"}
        /\ Len(baseLog[c]) <= 1
        /\ Len(pluginLog[c]) <= 1
        /\ raised[c].by \in {"MultiHeadPlugin", "CWRStarPlugin"} => baseLog[c] = <<>>

\* C6 witness: one construction ended with the base constructor's error and
\* another with the plugin constructor's
C6_Witness ==
    \E c, d \in Constructions :
        /\ Exited(c) /\ raised[c].by = "BaseStrategy" /\ outcome[c] = raised[c].error
        /\ Exited(d) /\ raised[d].by = "MultiHeadPlugin" /\ outcome[d] = raised[d].error

\* C9: in MTNaive and CWRStar the plugin is constructed, then joins the list, then
\* the base constructor is called.  With a caller's list: when the plugin
\* constructor raised, the list is as it was and the base constructor was not
\* called; when the base constructor raised, the list holds the plugin all the same.
C9_StepOrder ==
    \A c \in Constructions : Appending(c) =>
        /\ BaseCalled(c) =>
             /\ Len(pluginLog[c]) = 1
             /\ frame[c].plug # Unbound
             /\ baseLog[c][1].seen # <<>>
             /\ baseLog[c][1].seen[Len(baseLog[c][1].seen)] = frame[c].plug
        /\ frame[c].pc = "plugins" =>
             /\ Len(pluginLog[c]) = 1 /\ baseLog[c] = <<>>
             /\ Deref(heap, Passed(c)) = before[c]
        /\ (Latest(c) /\ Passed(c) # NoneRef) =>
             /\ raised[c].by \in {"MultiHeadPlugin", "CWRStarPlugin"} =>
                  /\ heap[Passed(c)] = before[c]
                  /\ baseLog[c] = <<>>
             /\ raised[c].by = "BaseStrategy" =>
                  heap[Passed(c)] = Append(before[c], frame[c].plug)

\* C9 witness: with the caller's two-element list, the base constructor raised
\* and the list has three elements
C9_Witness ==
    \E c \in Constructions :
        /\ Latest(c) /\ Appending(c) /\ Passed(c) # NoneRef
        /\ raised[c].by = "BaseStrategy"
        /\ Len(before[c]) = 2 /\ Len(heap[Passed(c)]) = 3

\* C9 witness of the other case: the plugin constructor raised
C9_WitnessPluginRaised ==
    \E c \in Constructions :
        /\ Latest(c) /\ Appending(c) /\ Passed(c) # NoneRef
        /\ raised[c].by = "CWRStarPlugin" /\ heap[Passed(c)] = before[c]

\* construction c has put its plugin into a list
Attached(c) == Appending(c) /\ frame[c].pc \in {"super", "exit"} /\ frame[c].plug # Unbound

\* the plugins the first k constructions put into list l, in construction order
RECURSIVE AttachedTo(_, _)
AttachedTo(l, k) ==
    IF k = 0 THEN <<>>
    ELSE AttachedTo(l, k - 1) \o
         (IF Attached(k) /\ Passed(k) = l THEN <<frame[k].plug>> ELSE <<>>)

\* C10: a caller's list L of length n that k constructions of MTNaive/CWRStar were
\* given (each having built its plugin) has length n + k, its last k elements being
\* their plugins in construction order; each strategy built from L holds L itself,
\* so an earlier strategy's plugins include those appended later; Naive leaves L alone.
C10_SharedListGrows ==
    \A l \in CallerLists :
        /\ heap[l] = CallerList(l) \o AttachedTo(l, started)
        /\ Len(heap[l]) = Len(CallerList(l)) +
             Cardinality({c \in Constructions : Attached(c) /\ Passed(c) = l})
        /\ \A c \in Constructions :
             (Called(c) /\ Passed(c) = l /\ strategy[c].built) =>
                 /\ strategy[c].plugins = l
                 /\ \A d \in Constructions :
                      (Attached(d) /\ Passed(d) = l) =>
                          Count(Deref(heap, strategy[c].plugins), frame[d].plug) = 1

\* C10 witness: two constructions were given the same list; the strategy built
\* first holds the plugin of the second
C10_Witness ==
    \E l \in CallerLists :
        /\ Len(AttachedTo(l, started)) >= 2
        /\ Len(heap[l]) = Len(CallerList(l)) + 2
        /\ \E c, d \in Constructions :
             /\ c < d /\ Passed(c) = l /\ Passed(d) = l
             /\ strategy[c].built /\ Attached(d)
             /\ frame[c].cls # frame[d].cls
             /\ heap[l][Len(heap[l])] = frame[d].plug

\* C10 witness of the Naive case: Naive was given a list another construction extended
C10_WitnessNaive ==
    \E c, d \in Constructions :
        /\ Exited(c) /\ frame[c].cls = "Naive" /\ Passed(c) # NoneRef
        /\ Attached(d) /\ d < c /\ Passed(d) = Passed(c)

\* two constructions were given the same list object
Shares(c, d) == Passed(c) # NoneRef /\ Passed(c) = Passed(d)
\* the list construction c works on (NoneRef: none yet)
ListOf(c) == frame[c].plugins

\* C7: among constructions running at the same time, one that takes a step changes
\* no list of a construction it does not share a caller's list with; and a
\* construction given no list works on a list of its own, holding its plugin only,
\* that is no caller's list and no other construction's list.
C7_NoInterference ==
    [][ \A c, d \in 1..started :
          /\ (c # d /\ ~Shares(c, d) /\ frame'[d] # frame[d] /\ ListOf(c) # NoneRef) =>
                 heap'[ListOf(c)] = heap[ListOf(c)]
          /\ (Passed(c) = NoneRef /\ frame'[c].cls # "Naive" /\ frame'[c].pc \in {"super", "exit"}
              /\ frame'[c].plug # Unbound) =>
                 /\ frame'[c].plugins \notin CallerLists \cup {NoneRef}
                 /\ heap'[frame'[c].plugins] = <<frame'[c].plug>>
                 /\ c # d => frame'[d].plugins # frame'[c].plugins
      ]_vars

\* C7 witness: two constructions run at once, one on the caller's list and one
\* given none, both with their plugin in place and the base constructor not yet called
C7_Witness ==
    \E c, d \in Constructions :
        /\ c # d /\ Called(c) /\ Called(d)
        /\ frame[c].pc = "super" /\ frame[d].pc = "super"
        /\ Appending(c) /\ Appending(d)
        /\ Passed(c) # NoneRef /\ Passed(d) = NoneRef
        /\ heap[ListOf(d)] = <<frame[d].plug>>
        /\ heap[ListOf(c)] = Append(before[c], frame[c].plug)

====
